---- MODULE Spec2Model ----
(***************************************************************************)
(* SSAMG solver object of hypre (sstruct_ls/ssamg.c): creation defaults,   *)
(* option setters, getters, history and statistics printing (the latter    *)
(* also step by step over the participants), destruction, together         *)
(* with the setup / solve / V-cycle engine that drives the object.         *)
(* The last part models the FE vector interface (HYPRE_fei_vector          *)
(* functions): HYPRE_FEVectorGetRHS and HYPRE_FEVectorSetSol.              *)
(*                                                                         *)
(* Real numbers are fixed-point integers counted in units of 1/RealDen, so *)
(* that the default tolerance 1.0e-06 is the integer 1.  Integer fields    *)
(* hold plain integers.                                                    *)
(***************************************************************************)
EXTENDS Integers, Naturals, Sequences, FiniteSets, TLC

\* ---------------------------------------------------------------- bounds
MaxSets   == 2     \* setter calls explored per handle
MaxIter   == 2     \* largest iteration budget a solve is explored with
MaxLevels == 3     \* largest hierarchy depth setup may produce
MaxParts  == 2     \* largest number of parts of the finest grid
MaxNorm   == 2     \* residual norms range over 0..MaxNorm
MaxSolves == 1     \* solves explored per handle
MaxStatCalls == 2  \* statistics calls explored per participant
MaxFECalls == 2    \* FE vector calls explored per vector

\* ------------------------------------------------------------- constants
RealDen == 1000000 \* fixed-point resolution: tol default 1.0e-06 is 1

Half == RealDen \div 2

\* C conversion of a real to HYPRE_Int: truncation toward zero
RealToInt(r) == IF r >= 0 THEN r \div RealDen ELSE -((-r) \div RealDen)

IntToReal(n) == n * RealDen

Max(a, b) == IF a >= b THEN a ELSE b
Min(a, b) == IF a <= b THEN a ELSE b

\* ------------------------------------------------------ argument domains
RealArgs     == {Half, RealDen + Half}
TolArgs      == {Half}
IntArgs      == {2}
MaxIterArgs  == {-1, 0, 1, MaxIter}
MaxLevelArgs == {0, 1, MaxLevels}
PrintArgs    == {1, 2}
LoggingArgs  == {0, 1, 2}
PartArgs     == {1, MaxParts}
NormVals     == 0 .. MaxNorm
UnitSpacing  == <<RealDen, RealDen, RealDen>>
TripleA      == <<Half, RealDen, RealDen + Half>>
TripleB      == <<RealDen + Half, Half, Half>>
GarbageVals  == {0, RealDen}

VARIABLES
  handle,            \* "live" | "destroyed" | "crashed"
  ssamg_data,        \* scalar fields of hypre_SSAMGData
  dxyz,              \* per-part grid spacing triples
  norms, rel_norms,  \* residual history arrays
  norms_alloc,       \* TRUE when the history arrays are allocated
  hier,              \* hierarchy arrays allocated by setup
  refs,              \* reference counts of the heap objects
  released,          \* release calls issued so far, in order
  hypre_error_flag,  \* global error status (set of error codes)
  pc,                \* "idle" | "cycle" | "check"  (position inside a solve)
  cyc,               \* current cycle phase and level
  cyc_trace,         \* phases of the current cycle executed so far
  run,               \* bookkeeping of the solve in progress / last solve
  call,              \* last API call and its argument
  ret,               \* what the last getter returned
  nsets, nsolves,    \* call counters
  grp,               \* the participants: position inside PrintStats, local
                     \* part of the level matrices, collectives issued,
                     \* diagnostics arrays
  out,               \* statistics tables printed so far
  fe                 \* the FE vector: its mesh, the right-hand side held by
                     \* the mesh's linear-system core, calls made on it

vars == <<handle, ssamg_data, dxyz, norms, rel_norms, norms_alloc, hier, refs,
          released, hypre_error_flag, pc, cyc, cyc_trace, run, call, ret,
          nsets, nsolves, grp, out, fe>>

solver_vars == <<ssamg_data, dxyz, norms, rel_norms, norms_alloc, hier, refs>>

stats_vars == <<grp, out>>

\* participants of the communicator; rank 0 coordinates
Ranks == 0 .. 1

\* ------------------------------------------------------------ Create
hypre_SSAMGCreate ==
  [ tol              |-> 1,
    max_iter         |-> 200,
    rel_change       |-> 0,
    zero_guess       |-> 0,
    max_levels       |-> 0,
    relax_type       |-> 0,
    usr_relax_weight |-> 0,
    num_pre_relax    |-> 1,
    num_post_relax   |-> 1,
    num_coarse_relax |-> -1,
    logging          |-> 0,
    print_level      |-> 0,
    nparts           |-> -1,
    num_levels       |-> -1,
    num_iterations   |-> 0 ]

Fields == DOMAIN hypre_SSAMGCreate

NoHier == [ A_l |-> <<>>, cdir_l |-> <<>>, alloc_levels |-> 0 ]

NoRet  == [ status |-> {}, value |-> 0, written |-> FALSE ]

NoRun  == [ r0 |-> 0, cycles |-> 0, status |-> "none", final_rel |-> 0, x0 |-> "caller",
            logging |-> 0, max_iter |-> 0 ]

\* every participant is outside PrintStats and has made the same calls (SPMD)
GroupSync ==
  \A r \in Ranks, q \in Ranks : grp[r].pc = "out" /\ grp[r].ncalls = grp[q].ncalls

Idle == handle = "live" /\ pc = "idle" /\ GroupSync

\* ------------------------------------------------------------ level matrices
\* HYPRE_Int is modelled 12 bits wide, so that every HYPRE_Int is exactly
\* representable as a HYPRE_Real, as a 32-bit integer is in a double
HYPRE_INT_MAX  == 2047
HYPRE_INT_MIN  == -2048
HYPRE_REAL_MAX == IntToReal(HYPRE_INT_MAX) + (RealDen - 1)

\* what a participant holds of the problem: nothing, little, or much
Kinds == {"none", "few", "many"}

Layouts == [Ranks -> Kinds]

\* the locally stored non-zero rows of the level-l matrix (l counted from 0):
\* number of entries and sum of the entries of each row
LocalRows(kind, l) ==
  CASE kind = "none" -> <<>>
    [] kind = "few"  ->
         IF l = 0 THEN << [entries |-> 3, rowsum |-> Half],
                          [entries |-> 5, rowsum |-> -RealDen] >>
         ELSE IF l = 1 THEN << [entries |-> 2, rowsum |-> 0] >>
         ELSE <<>>
    [] kind = "many" ->
         << [entries |-> 7 - Min(l, 3), rowsum |-> IntToReal(l + 1)],
            [entries |-> 1, rowsum |-> -Half],
            [entries |-> 4, rowsum |-> RealDen + Half] >>

\* locally stored rows without any entry
LocalZeroRows(kind, l) == IF kind = "many" /\ l = 0 THEN 1 ELSE 0

\* the structured matrix of one part (the parts count from 1) on this
\* participant: present or not, boxes and degrees of freedom of its grid,
\* size of its stencil
LocalSMatrix(kind, l, part) ==
  CASE kind = "none" -> [present |-> (part = 1), boxes |-> 0, dofs |-> 0, stsize |-> 5]
    [] kind = "few"  ->
         IF part = 1
           THEN [present |-> TRUE, boxes |-> 1,
                 dofs |-> IF l = 0 THEN 4 ELSE IF l = 1 THEN 2 ELSE 0, stsize |-> 5]
           ELSE [present |-> FALSE, boxes |-> 0, dofs |-> 0, stsize |-> 0]
    [] kind = "many" ->
         [present |-> TRUE, boxes |-> 2, dofs |-> IF l = 0 THEN 4 ELSE 3,
          stsize |-> IF l = 0 THEN 5 ELSE 7]

\* rows of the local range including ghosts, for the largest number of parts
LocalGhosts(kind) == IF kind = "none" THEN 0 ELSE 2

RECURSIVE SumEntries(_)
SumEntries(rows) ==
  IF rows = <<>> THEN 0 ELSE Head(rows).entries + SumEntries(Tail(rows))

RECURSIVE SumRanks(_, _)
SumRanks(f, n) == IF n < 0 THEN 0 ELSE f[n] + SumRanks(f, n - 1)

MaxRanks(f) == CHOOSE v \in {f[q] : q \in Ranks} : \A q \in Ranks : f[q] <= v

LastRank == CHOOSE n \in Ranks : \A q \in Ranks : q <= n

\* participant r's part of the level-l matrix as setup leaves it.  nnz, rownnz
\* and nrows are the global counts; num_nonzeros and num_rownnz are the stored
\* counts, not computed yet.
ParMatrix(layout, r, l) ==
  [ nnz          |-> SumRanks([q \in Ranks |-> SumEntries(LocalRows(layout[q], l))],
                              LastRank),
    rownnz       |-> SumRanks([q \in Ranks |-> Len(LocalRows(layout[q], l))], LastRank),
    nrows        |-> SumRanks([q \in Ranks |-> Len(LocalRows(layout[q], l))
                                                 + LocalZeroRows(layout[q], l)],
                              LastRank),
    num_nonzeros |-> 0,
    num_rownnz   |-> -1,
    rows         |-> LocalRows(layout[r], l),
    kind         |-> layout[r] ]

\* a participant outside PrintStats that has printed nothing yet
Participant(layout, r) ==
  [ pc     |-> "out",
    l      |-> 0,
    ncalls |-> 0,
    A      |-> [i \in 1 .. MaxLevels |-> ParMatrix(layout, r, i - 1)],
    log    |-> <<>>,
    allocd |-> FALSE,
    snap   |-> <<>> ]

Group(layout) == [r \in Ranks |-> Participant(layout, r)]

\* ------------------------------------------------------------ Init
\* ------------------------------------------------------------ FE vector
\* A mesh handle: null, or a mesh with its linear-system core (linSys_), its
\* FEI instance (feiPtr_) and the kind of that instance (objectType_).
NullMesh == [null |-> TRUE, linSys_ |-> "NULL", feiPtr_ |-> "NULL", objectType_ |-> 1]

FEMeshes ==
  {NullMesh} \cup
  {[null |-> FALSE, linSys_ |-> c, feiPtr_ |-> f, objectType_ |-> t] :
     c \in {"NULL", "lsc"}, f \in {"NULL", "fei"}, t \in {1, 2}}

\* objects handed through void pointers
PriorObjects == {"NULL", "stale"}
SolObjects   == {"sol1", "sol2"}
SolveCodes   == {0, 1}

\* HYPRE_FEVectorCreate: the vector keeps the mesh it was created on
HYPRE_FEVectorCreate(mesh) == [mesh_ |-> mesh, rhs |-> "rhs0", ncalls |-> 0]

\* everything around the scalar fields of a solver object just created
InitRest ==
  /\ handle = "live"
  /\ dxyz = <<>>
  /\ norms = <<>>
  /\ rel_norms = <<>>
  /\ norms_alloc = FALSE
  /\ hier = NoHier
  /\ refs = [o \in {} |-> 0]
  /\ released = <<>>
  /\ hypre_error_flag = {}
  /\ pc = "idle"
  /\ cyc = <<"none", 0>>
  /\ cyc_trace = <<>>
  /\ run = NoRun
  /\ call = [op |-> "Create", arg |-> 0]
  /\ ret = NoRet
  /\ nsets = 0
  /\ nsolves = 0
  /\ out = <<>>

InitSolver ==
  /\ ssamg_data = hypre_SSAMGCreate
  /\ InitRest

\* one participant holds the whole problem
Init ==
  /\ InitSolver
  /\ grp = Group([r \in Ranks |-> IF r = 0 THEN "many" ELSE "none"])
  /\ fe = HYPRE_FEVectorCreate(NullMesh)

\* the problem is distributed over the participants in any way
InitStats ==
  /\ InitSolver
  /\ grp \in {Group(layout) : layout \in Layouts}
  /\ fe = HYPRE_FEVectorCreate(NullMesh)

\* the object after the caller has chosen its print level and its logging
\* level (hypre_SSAMGSetPrintLevel, hypre_SSAMGSetLogging: plain stores)
InitHist ==
  /\ ssamg_data \in {[hypre_SSAMGCreate EXCEPT !.print_level = print_level,
                                               !.logging = logging] :
                        print_level \in PrintArgs, logging \in LoggingArgs}
  /\ InitRest
  /\ grp = Group([r \in Ranks |-> IF r = 0 THEN "many" ELSE "none"])
  /\ fe = HYPRE_FEVectorCreate(NullMesh)

\* an FE vector created on any mesh
InitFE ==
  /\ InitSolver
  /\ grp = Group([r \in Ranks |-> IF r = 0 THEN "many" ELSE "none"])
  /\ fe \in {HYPRE_FEVectorCreate(mesh) : mesh \in FEMeshes}

\* ------------------------------------------------------------ setters
\* Each operator below is the new content of the solver struct after the
\* setter's single assignment; every setter returns hypre_error_flag.

hypre_SSAMGSetTol(tol) == [ssamg_data EXCEPT !.tol = tol]

Mut_SetMaxIter(max_iter) ==
  [ssamg_data EXCEPT !.max_iter = max_iter, !.num_iterations = 0]

hypre_SSAMGSetMaxIter(max_iter) == [ssamg_data EXCEPT !.max_iter = max_iter]

hypre_SSAMGSetMaxLevels(max_levels) == [ssamg_data EXCEPT !.max_levels = max_levels]

\* the parameter is HYPRE_Real, the field is the integer relative-change flag
hypre_SSAMGSetRelChange(rel_change) ==
  [ssamg_data EXCEPT !.rel_change = RealToInt(rel_change)]

hypre_SSAMGSetZeroGuess(zero_guess) == [ssamg_data EXCEPT !.zero_guess = zero_guess]

hypre_SSAMGSetRelaxType(relax_type) == [ssamg_data EXCEPT !.relax_type = relax_type]

hypre_SSAMGSetRelaxWeight(usr_relax_weight) ==
  [ssamg_data EXCEPT !.usr_relax_weight = usr_relax_weight]

hypre_SSAMGSetNumPreRelax(num_pre_relax) ==
  [ssamg_data EXCEPT !.num_pre_relax = num_pre_relax]

hypre_SSAMGSetNumPosRelax(num_pos_relax) ==
  [ssamg_data EXCEPT !.num_post_relax = num_pos_relax]

hypre_SSAMGSetNumCoarseRelax(num_coarse_relax) ==
  [ssamg_data EXCEPT !.num_coarse_relax = num_coarse_relax]

hypre_SSAMGSetPrintLevel(print_level) == [ssamg_data EXCEPT !.print_level = print_level]

hypre_SSAMGSetLogging(logging) == [ssamg_data EXCEPT !.logging = logging]

\* one setter call: store, return the error flag, touch nothing else
SetterCall(op, arg, new_data) ==
  /\ Idle
  /\ nsets < MaxSets
  /\ ssamg_data' = new_data
  /\ call' = [op |-> op, arg |-> arg]
  /\ ret' = [NoRet EXCEPT !.status = hypre_error_flag]
  /\ nsets' = nsets + 1
  /\ UNCHANGED <<handle, dxyz, norms, rel_norms, norms_alloc, hier, refs, released,
                 hypre_error_flag, pc, cyc, cyc_trace, run, nsolves>>
  /\ UNCHANGED <<stats_vars, fe>>

SetTol            == \E v \in TolArgs : SetterCall("SetTol", v, hypre_SSAMGSetTol(v))
SetMaxIter        == \E v \in MaxIterArgs : SetterCall("SetMaxIter", v, hypre_SSAMGSetMaxIter(v))
SetMaxLevels      == \E v \in MaxLevelArgs : SetterCall("SetMaxLevels", v, hypre_SSAMGSetMaxLevels(v))
SetRelChange      == \E v \in RealArgs : SetterCall("SetRelChange", v, hypre_SSAMGSetRelChange(v))
SetZeroGuess      == \E v \in IntArgs : SetterCall("SetZeroGuess", v, hypre_SSAMGSetZeroGuess(v))
SetRelaxType      == \E v \in IntArgs : SetterCall("SetRelaxType", v, hypre_SSAMGSetRelaxType(v))
SetRelaxWeight    == \E v \in TolArgs : SetterCall("SetRelaxWeight", v, hypre_SSAMGSetRelaxWeight(v))
SetNumPreRelax    == \E v \in IntArgs : SetterCall("SetNumPreRelax", v, hypre_SSAMGSetNumPreRelax(v))
SetNumPosRelax    == \E v \in IntArgs : SetterCall("SetNumPosRelax", v, hypre_SSAMGSetNumPosRelax(v))
SetNumCoarseRelax == \E v \in IntArgs : SetterCall("SetNumCoarseRelax", v, hypre_SSAMGSetNumCoarseRelax(v))
SetPrintLevel     == \E v \in PrintArgs : SetterCall("SetPrintLevel", v, hypre_SSAMGSetPrintLevel(v))
SetLogging        == \E v \in LoggingArgs : SetterCall("SetLogging", v, hypre_SSAMGSetLogging(v))

\* ------------------------------------------------------------ SetDxyz
\* copies nparts triples into the stored spacing array; a part beyond the
\* stored array is an out-of-bounds write
hypre_SSAMGSetDxyz(nparts, new_dxyz) ==
  [p \in DOMAIN dxyz |-> IF p <= nparts THEN new_dxyz[p] ELSE dxyz[p]]

\* caller arrays: neighbouring parts carry different triples
DxyzArgs(n) ==
  { [p \in 1 .. n |-> IF p % 2 = 1 THEN t[1] ELSE t[2]] :
      t \in {<<TripleA, TripleB>>, <<TripleB, TripleA>>} }

SetDxyz ==
  \E n \in PartArgs : \E d \in DxyzArgs(n) :
    /\ Idle
    /\ nsets < MaxSets
    /\ dxyz' = hypre_SSAMGSetDxyz(n, d)
    /\ IF n <= Len(dxyz)
         THEN handle' = handle
         ELSE handle' \in {"live", "crashed"}
    /\ call' = [op |-> "SetDxyz", arg |-> d]
    /\ ret' = [NoRet EXCEPT !.status = hypre_error_flag]
    /\ nsets' = nsets + 1
    /\ UNCHANGED <<ssamg_data, norms, rel_norms, norms_alloc, hier, refs, released,
                   hypre_error_flag, pc, cyc, cyc_trace, run, nsolves>>
    /\ UNCHANGED <<stats_vars, fe>>

\* ------------------------------------------------------------ heap objects
LevelKinds    == {"relax_data_l", "matvec_data_l", "b_l", "x_l", "tx_l", "A_l",
                  "grid_l"}
TransferKinds == {"P_l", "RT_l", "restrict_data_l", "interp_data_l"}
CallerKinds   == {"b_l", "x_l", "A_l", "grid_l"}

\* objects the hierarchy holds after a setup with num_levels levels and
\* max_levels relaxation-weight slots
HierObjects(num_levels, max_levels) ==
  (LevelKinds \X (0 .. num_levels - 1))
    \cup ((TransferKinds \cup {"cdir_l"}) \X (0 .. num_levels - 2))
    \cup ({"relax_weights"} \X (0 .. max_levels - 1))

\* the caller keeps its own reference to the finest grid, matrix and vectors;
\* setup takes a second one
SetupRefs(num_levels, max_levels) ==
  [o \in HierObjects(num_levels, max_levels) |->
     IF o[1] \in CallerKinds /\ o[2] = 0 THEN 2 ELSE 1]

\* ------------------------------------------------------------ Setup
ArgMin3(t) ==
  IF t[1] <= t[2] /\ t[1] <= t[3] THEN 0
  ELSE IF t[2] <= t[3] THEN 1 ELSE 2

\* spacing of a part after semi-coarsening along axis d
CoarsenSpacing(t, d) == [a \in 1 .. 3 |-> IF a = d + 1 THEN 2 * t[a] ELSE t[a]]

RECURSIVE SpacingAt(_, _)
SpacingAt(t, l) ==
  IF l = 0 THEN t
  ELSE CoarsenSpacing(SpacingAt(t, l - 1), ArgMin3(SpacingAt(t, l - 1)))

\* coarsening direction record: one row per transition l -> l+1
CoarsenDirs(d, num_levels) ==
  [l \in 1 .. num_levels - 1 |->
     [p \in DOMAIN d |-> ArgMin3(SpacingAt(d[p], l - 1))]]

\* a level matrix as setup leaves it: non-zero count and non-zero-row
\* bookkeeping are not computed yet
LevelMatrix(l) ==
  [ nnz          |-> 2 * (MaxLevels + 1 - l),
    rownnz       |-> MaxLevels + 1 - l,
    num_nonzeros |-> 0,
    num_rownnz   |-> -1 ]

hypre_SSAMGSetup ==
  \E np \in 1 .. MaxParts, L \in 1 .. MaxLevels :
    LET user_max == ssamg_data.max_levels
        eff_max  == IF user_max > 0 THEN Min(user_max, MaxLevels) ELSE MaxLevels
        d        == [p \in 1 .. np |-> UnitSpacing]
    IN
    /\ Idle
    /\ ssamg_data.num_levels = -1
    /\ L <= eff_max
    /\ ssamg_data' = [ssamg_data EXCEPT !.nparts = np, !.num_levels = L,
                                          !.max_levels = eff_max]
    /\ dxyz' = d
    /\ hier' = [ A_l          |-> [l \in 1 .. L |-> LevelMatrix(l - 1)],
                 cdir_l       |-> CoarsenDirs(d, L),
                 alloc_levels |-> eff_max ]
    /\ refs' = SetupRefs(L, eff_max)
    /\ call' = [op |-> "Setup", arg |-> L]
    /\ ret' = [NoRet EXCEPT !.status = hypre_error_flag]
    /\ UNCHANGED <<handle, norms, rel_norms, norms_alloc, released, hypre_error_flag,
                   pc, cyc, cyc_trace, run, nsets, nsolves>>
    /\ UNCHANGED <<stats_vars, fe>>

\* ------------------------------------------------------------ V-cycle
\* The phase that follows phase ph of level l in a hierarchy of L levels.
\* Interpolate(l) transfers the correction of level l+1 into level l.
Mut_NextPhase(ph, l, L) ==
  CASE ph = "PreSmooth"   -> <<"Restrict", l>>
    [] ph = "Restrict"    -> <<"Residual", l>>
    [] ph = "Residual"    -> IF l + 1 = L - 1 THEN <<"CoarseSolve", l + 1>>
                                              ELSE <<"PreSmooth", l + 1>>
    [] ph = "CoarseSolve" -> IF l = 0 THEN <<"done", 0>> ELSE <<"Interpolate", l - 1>>
    [] ph = "Interpolate" -> <<"PostSmooth", l>>
    [] ph = "PostSmooth"  -> IF l = 0 THEN <<"done", 0>> ELSE <<"Interpolate", l - 1>>

NextPhase(ph, l, L) ==
  CASE ph = "PreSmooth"   -> <<"Residual", l>>
    [] ph = "Residual"    -> <<"Restrict", l>>
    [] ph = "Restrict"    -> IF l + 1 = L - 1 THEN <<"CoarseSolve", l + 1>>
                                              ELSE <<"PreSmooth", l + 1>>
    [] ph = "CoarseSolve" -> IF l = 0 THEN <<"done", 0>> ELSE <<"Interpolate", l - 1>>
    [] ph = "Interpolate" -> <<"PostSmooth", l>>
    [] ph = "PostSmooth"  -> IF l = 0 THEN <<"done", 0>> ELSE <<"Interpolate", l - 1>>

\* a cycle that pre-smooths level 0 whatever the depth of the hierarchy
Mut_FirstPhase(L) == <<"PreSmooth", 0>>

\* the cycle enters at level 0; a one-level hierarchy has only its coarsest level
FirstPhase(L) == IF L = 1 THEN <<"CoarseSolve", 0>> ELSE <<"PreSmooth", 0>>

\* one phase of the cycle runs to completion
Phase(ph) ==
  /\ handle = "live"
  /\ pc = "cycle"
  /\ cyc[1] = ph
  /\ cyc_trace' = Append(cyc_trace, cyc)
  /\ LET nx == NextPhase(ph, cyc[2], ssamg_data.num_levels) IN
       IF nx[1] = "done"
         THEN pc' = "check" /\ cyc' = <<"none", 0>>
         ELSE pc' = pc /\ cyc' = nx
  /\ UNCHANGED <<handle, ssamg_data, dxyz, norms, rel_norms, norms_alloc, hier, refs,
                 released, hypre_error_flag, run, call, ret, nsets, nsolves>>
  /\ UNCHANGED <<stats_vars, fe>>

PreSmooth   == Phase("PreSmooth")
Residual    == Phase("Residual")
Restrict    == Phase("Restrict")
CoarseSolve == Phase("CoarseSolve")
Interpolate == Phase("Interpolate")
PostSmooth  == Phase("PostSmooth")

\* The smoother's contract: sweeps in place on the iterate of one level, from
\* that level's matrix and right-hand side.
SmootherAlone(l, sweeps) ==
  [operator |-> "relax", level |-> l, sweeps |-> sweeps,
   reads  |-> {<<"A_l", l>>, <<"b_l", l>>, <<"x_l", l>>},
   writes |-> {<<"x_l", l>>}]

\* What one phase of the cycle applies and which level vectors it touches.
PhaseEffect(ph, l) ==
  CASE ph = "PreSmooth"   -> SmootherAlone(l, ssamg_data.num_pre_relax)
    [] ph = "Residual"    -> [operator |-> "matvec", level |-> l, sweeps |-> 0,
                              reads  |-> {<<"A_l", l>>, <<"b_l", l>>, <<"x_l", l>>},
                              writes |-> {<<"tx_l", l>>}]
    [] ph = "Restrict"    -> [operator |-> "RT_l", level |-> l, sweeps |-> 0,
                              reads  |-> {<<"tx_l", l>>},
                              writes |-> {<<"b_l", l + 1>>, <<"x_l", l + 1>>}]
    [] ph = "CoarseSolve" -> SmootherAlone(l, ssamg_data.num_coarse_relax)
    [] ph = "Interpolate" -> [operator |-> "P_l", level |-> l, sweeps |-> 0,
                              reads  |-> {<<"x_l", l + 1>>, <<"x_l", l>>},
                              writes |-> {<<"x_l", l>>}]
    [] ph = "PostSmooth"  -> SmootherAlone(l, ssamg_data.num_post_relax)

\* the effects of the phases a cycle has executed, in order
CycleEffects(trace) == [k \in 1 .. Len(trace) |-> PhaseEffect(trace[k][1], trace[k][2])]

\* ------------------------------------------------------------ Solve
\* relative residual norm ||r_k|| / ||r_0||, defined as 0 for a zero ||r_0||
RelNorm(rk, r0) == IF r0 = 0 THEN 0 ELSE (rk * RealDen) \div r0

\* entry of the solve: reset the counter and the history, compute ||r_0||
SolveBegin ==
  \E r0 \in NormVals :
    /\ Idle
    /\ ssamg_data.num_levels > -1
    /\ nsolves < MaxSolves
    /\ (ssamg_data.max_iter <= MaxIter \/ r0 = 0)
    /\ nsolves' = nsolves + 1
    /\ ssamg_data' = [ssamg_data EXCEPT !.num_iterations = 0]
    /\ norms' = <<>>
    /\ rel_norms' = <<>>
    /\ norms_alloc' = (norms_alloc \/ ssamg_data.logging > 0)
    /\ call' = [op |-> "Solve", arg |-> r0]
    /\ ret' = [NoRet EXCEPT !.status = hypre_error_flag]
    /\ cyc_trace' = <<>>
    /\ LET x0 == IF ssamg_data.zero_guess # 0 THEN "zero" ELSE "caller" IN
       IF ssamg_data.max_iter <= 0
         THEN /\ pc' = "idle" /\ cyc' = <<"none", 0>>
              /\ run' = [r0 |-> r0, cycles |-> 0, status |-> "no_iter",
                         final_rel |-> RelNorm(r0, r0), x0 |-> x0,
                         logging |-> ssamg_data.logging,
                         max_iter |-> ssamg_data.max_iter]
       ELSE IF r0 = 0
         THEN /\ pc' = "idle" /\ cyc' = <<"none", 0>>
              /\ run' = [r0 |-> r0, cycles |-> 0, status |-> "zero_r0",
                         final_rel |-> 0, x0 |-> x0,
                         logging |-> ssamg_data.logging,
                         max_iter |-> ssamg_data.max_iter]
         ELSE /\ pc' = "cycle" /\ cyc' = FirstPhase(ssamg_data.num_levels)
              /\ run' = [r0 |-> r0, cycles |-> 0, status |-> "running",
                         final_rel |-> RelNorm(r0, r0), x0 |-> x0,
                         logging |-> ssamg_data.logging,
                         max_iter |-> ssamg_data.max_iter]
    /\ UNCHANGED <<handle, dxyz, hier, refs, released, hypre_error_flag, nsets>>
    /\ UNCHANGED <<stats_vars, fe>>

\* after each cycle: ||r_k||, the relative norm, the counter, the stop test
Mut_ConvergenceCheck ==
  \E rk \in NormVals, small_change \in BOOLEAN :
    LET rel  == RelNorm(rk, run.r0)
        k    == ssamg_data.num_iterations + 1
        conv == rel < ssamg_data.tol \/ (ssamg_data.rel_change # 0 /\ small_change)
        stop == conv \/ k > ssamg_data.max_iter
    IN
    /\ handle = "live"
    /\ pc = "check"
    /\ ssamg_data' = [ssamg_data EXCEPT !.num_iterations = k]
    /\ IF ssamg_data.logging > 0
         THEN norms' = Append(norms, rk) /\ rel_norms' = Append(rel_norms, rel)
         ELSE UNCHANGED <<norms, rel_norms>>
    /\ run' = [run EXCEPT !.cycles = @ + 1, !.final_rel = rel,
                          !.status = IF conv THEN "converged"
                                     ELSE IF stop THEN "budget" ELSE "running"]
    /\ IF stop
         THEN pc' = "idle" /\ cyc' = <<"none", 0>> /\ cyc_trace' = cyc_trace
         ELSE pc' = "cycle" /\ cyc' = FirstPhase(ssamg_data.num_levels)
              /\ cyc_trace' = <<>>
    /\ UNCHANGED <<handle, dxyz, norms_alloc, hier, refs, released, hypre_error_flag,
                   call, ret, nsets, nsolves>>
    /\ UNCHANGED <<stats_vars, fe>>

ConvergenceCheck ==
  \E rk \in NormVals, small_change \in BOOLEAN :
    LET rel  == RelNorm(rk, run.r0)
        k    == ssamg_data.num_iterations + 1
        conv == rel < ssamg_data.tol \/ (ssamg_data.rel_change # 0 /\ small_change)
        stop == conv \/ k >= ssamg_data.max_iter
    IN
    /\ handle = "live"
    /\ pc = "check"
    /\ ssamg_data' = [ssamg_data EXCEPT !.num_iterations = k]
    /\ IF ssamg_data.logging > 0
         THEN norms' = Append(norms, rk) /\ rel_norms' = Append(rel_norms, rel)
         ELSE UNCHANGED <<norms, rel_norms>>
    /\ run' = [run EXCEPT !.cycles = @ + 1, !.final_rel = rel,
                          !.status = IF conv THEN "converged"
                                     ELSE IF stop THEN "budget" ELSE "running"]
    /\ IF stop
         THEN pc' = "idle" /\ cyc' = <<"none", 0>> /\ cyc_trace' = cyc_trace
         ELSE pc' = "cycle" /\ cyc' = FirstPhase(ssamg_data.num_levels)
              /\ cyc_trace' = <<>>
    /\ UNCHANGED <<handle, dxyz, norms_alloc, hier, refs, released, hypre_error_flag,
                   call, ret, nsets, nsolves>>
    /\ UNCHANGED <<stats_vars, fe>>

SolveStep ==
  \/ PreSmooth \/ Residual \/ Restrict \/ CoarseSolve \/ Interpolate \/ PostSmooth
  \/ ConvergenceCheck

\* ------------------------------------------------------------ PrintLogging
\* the history is printed by rank 0 alone, for print_level > 0 and logging > 1
Mut_LoggingActive(myid, print_level, logging) ==
  myid = 0 /\ print_level > 0 /\ logging > 0

LoggingActive(myid, print_level, logging) ==
  myid = 0 /\ print_level > 0 /\ logging > 1

\* for (i = print_level; i < num_iterations; i = (i + print_level))
RECURSIVE LoggingLoop(_, _, _)
LoggingLoop(i, print_level, num_iterations) ==
  IF i >= num_iterations THEN <<>>
  ELSE <<i>> \o LoggingLoop(i + print_level, print_level, num_iterations)

\* the value of i when the loop is left
RECURSIVE LoggingLoopExit(_, _, _)
LoggingLoopExit(i, print_level, num_iterations) ==
  IF i >= num_iterations THEN i
  ELSE LoggingLoopExit(i + print_level, print_level, num_iterations)

\* iteration numbers of the rows printed, in order
LoggingRows(print_level, num_iterations) ==
  <<0>> \o LoggingLoop(print_level, print_level, num_iterations)
        \o (IF LoggingLoopExit(print_level, print_level, num_iterations) # num_iterations
               /\ num_iterations > 0
              THEN <<num_iterations - 1>> ELSE <<>>)

\* the conv.rate column of these rows: <<i, j>> stands for norms[i] / norms[j],
\* <<>> for the initial value 1.0 of convr.  The row after the loop prints
\* convr as the loop left it.
LoggingRates(print_level, num_iterations) ==
  LET loop == LoggingLoop(print_level, print_level, num_iterations)
      inloop == [k \in 1 .. Len(loop) |-> <<loop[k], loop[k] - 1>>]
  IN <<<<>>>> \o inloop
       \o (IF LoggingLoopExit(print_level, print_level, num_iterations) # num_iterations
              /\ num_iterations > 0
             THEN <<IF Len(loop) = 0 THEN <<>> ELSE inloop[Len(loop)]>> ELSE <<>>)

\* entries of norms / rel_norms read for these rows (0-based)
LoggingReads(print_level, num_iterations) ==
  {LoggingRows(print_level, num_iterations)[k] :
     k \in 1 .. Len(LoggingRows(print_level, num_iterations))}
    \cup {i - 1 : i \in {LoggingLoop(print_level, print_level, num_iterations)[k] :
                   k \in 1 .. Len(LoggingLoop(print_level, print_level, num_iterations))}}

hypre_SSAMGPrintLogging ==
  \E myid \in Ranks :
    LET print_level == ssamg_data.print_level
        rows  == LoggingRows(print_level, ssamg_data.num_iterations)
        reads == LoggingReads(print_level, ssamg_data.num_iterations)
        rates == LoggingRates(print_level, ssamg_data.num_iterations)
    IN
    /\ Idle
    /\ call' = [op |-> "PrintLogging", arg |-> myid]
    /\ IF LoggingActive(myid, print_level, ssamg_data.logging)
         THEN /\ ret' = [status |-> hypre_error_flag,
                         value |-> [rows |-> rows, reads |-> reads, rates |-> rates],
                         written |-> FALSE]
              /\ IF norms_alloc /\ \A i \in reads : i < Len(norms)
                   THEN handle' = handle
                   ELSE \* read outside the history: any value, or a fault
                        handle' \in {"live", "crashed"}
         ELSE /\ ret' = [status |-> hypre_error_flag,
                         value |-> [rows |-> <<>>, reads |-> {}, rates |-> <<>>],
                         written |-> FALSE]
              /\ handle' = handle
    /\ UNCHANGED <<ssamg_data, dxyz, norms, rel_norms, norms_alloc, hier, refs,
                   released, hypre_error_flag, pc, cyc, cyc_trace, run, nsets, nsolves>>
    /\ UNCHANGED <<stats_vars, fe>>

\* ------------------------------------------------------------ PrintStats
\* hypre_ParCSRMatrixSetNumRownnz: store the count of non-zero rows
SetNumRownnz(A) == [A EXCEPT !.num_rownnz = A.rownnz]

\* if (!NumNonzeros) hypre_ParCSRMatrixSetNumNonzeros: count once, then keep
SetNumNonzerosIfUnset(A) ==
  IF A.num_nonzeros = 0 THEN [A EXCEPT !.num_nonzeros = A.nnz] ELSE A

\* the level matrices after the "Gather UMatrix info" loop
GatherUMatrix(A_l, num_levels) ==
  [l \in DOMAIN A_l |->
     IF l <= num_levels THEN SetNumNonzerosIfUnset(SetNumRownnz(A_l[l])) ELSE A_l[l]]

hypre_SSAMGPrintStats ==
  \E rank \in Ranks :
    /\ Idle
    /\ ssamg_data.num_levels > -1
    /\ IF ssamg_data.print_level = 0
         THEN hier' = hier
         ELSE hier' = [hier EXCEPT !.A_l = GatherUMatrix(hier.A_l, ssamg_data.num_levels)]
    /\ call' = [op |-> "PrintStats", arg |-> rank]
    /\ ret' = [NoRet EXCEPT !.status = hypre_error_flag]
    /\ UNCHANGED <<handle, ssamg_data, dxyz, norms, rel_norms, norms_alloc, refs,
                   released, hypre_error_flag, pc, cyc, cyc_trace, run, nsets, nsolves>>
    /\ UNCHANGED <<stats_vars, fe>>

\* ------------------------------------------------ PrintStats, step by step
\* The same function as each participant of the communicator executes it:
\* its position is grp[myid].pc, the level it works on grp[myid].l (from 0).

\* if (print_level == 0) return
Mut_EarlyReturn(print_level) == FALSE

EarlyReturn(print_level) == print_level = 0

\* the fifteen per-level arrays of the coordinating participant, zeroed by
\* hypre_CTAlloc
ZeroSnapshot(num_levels) ==
  [i \in 1 .. num_levels |->
     [ num_rows |-> 0, num_rownnz |-> 0, num_nonzeros |-> 0, min_entries |-> 0,
       max_entries |-> 0, avg_entries |-> 0, min_rowsum |-> 0, max_rowsum |-> 0,
       num_parts |-> 0, num_boxes |-> 0, num_dofs |-> 0, num_ghrows |-> 0,
       min_stsize |-> 0, max_stsize |-> 0, avg_stsize |-> 0 ]]

\* if (myid == 0) { global_... = hypre_CTAlloc(..., num_levels); }
AllocSnapshot(q, myid, num_levels) ==
  IF myid = 0
    THEN [q EXCEPT !.allocd = TRUE, !.snap = ZeroSnapshot(num_levels)]
    ELSE q

\* if (myid == 0) { hypre_TFree(global_...); }
Mut_ReleaseSnapshot(q, myid) == q

ReleaseSnapshot(q, myid) ==
  IF myid = 0 THEN [q EXCEPT !.allocd = FALSE, !.snap = <<>>] ELSE q

\* the stored counts of a level matrix, brought up to date
CachedCounts(A) == SetNumNonzerosIfUnset(SetNumRownnz(A))

\* global rows, non-zero rows and non-zero entries as the coordinating
\* participant reads them from level matrix A
Mut_GlobalCounts(A) ==
  [ num_rows |-> A.nrows, num_rownnz |-> A.num_rownnz,
    num_nonzeros |-> A.num_nonzeros ]

GlobalCounts(A) ==
  [ num_rows     |-> CachedCounts(A).nrows,
    num_rownnz   |-> CachedCounts(A).num_rownnz,
    num_nonzeros |-> CachedCounts(A).num_nonzeros ]

\* extrema of entries per row and of the row sums over the local non-zero rows
RECURSIVE ScanRows(_, _)
ScanRows(rows, acc) ==
  IF rows = <<>> THEN acc
  ELSE ScanRows(Tail(rows),
         [ min_entries |-> Min(Head(rows).entries, acc.min_entries),
           max_entries |-> Max(Head(rows).entries, acc.max_entries),
           min_rowsum  |-> Min(Head(rows).rowsum, acc.min_rowsum),
           max_rowsum  |-> Max(Head(rows).rowsum, acc.max_rowsum) ])

LocalExtrema(rows) ==
  IF Len(rows) # 0
    THEN ScanRows(rows, [ min_entries |-> HYPRE_INT_MAX, max_entries |-> HYPRE_INT_MIN,
                          min_rowsum |-> HYPRE_REAL_MAX, max_rowsum |-> -HYPRE_REAL_MAX ])
    ELSE [ min_entries |-> 0, max_entries |-> 0, min_rowsum |-> 0, max_rowsum |-> 0 ]

\* send_buffer of the 4-value reduction: minima travel negated
Mut_SendExtrema(e) ==
  << IntToReal(e.min_entries), IntToReal(e.max_entries), e.min_rowsum, e.max_rowsum >>

SendExtrema(e) ==
  << -IntToReal(e.min_entries), IntToReal(e.max_entries), -e.min_rowsum, e.max_rowsum >>

\* hypre_SStructMatrixRanGhlocalSize: local degrees of freedom plus ghosts
RECURSIVE LocalDofs(_, _, _)
LocalDofs(kind, l, nparts) ==
  IF nparts <= 0 THEN 0
  ELSE (IF LocalSMatrix(kind, l, nparts).present
          THEN LocalSMatrix(kind, l, nparts).dofs ELSE 0)
       + LocalDofs(kind, l, nparts - 1)

RanGhlocalSize(kind, l, nparts) == LocalDofs(kind, l, nparts) + LocalGhosts(kind)

\* the loop over the parts of the "Gather SMatrix info" block
RECURSIVE ScanParts(_, _, _, _, _)
ScanParts(kind, l, part, nparts, acc) ==
  IF part > nparts THEN acc
  ELSE LET g      == LocalSMatrix(kind, l, part)
           boxes  == IF g.present THEN g.boxes ELSE 0
           dofs   == IF g.present THEN g.dofs ELSE 0
           sized  == g.present /\ g.dofs # 0
       IN ScanParts(kind, l, part + 1, nparts,
            [ num_parts  |-> acc.num_parts + (IF boxes # 0 THEN 1 ELSE 0),
              num_boxes  |-> acc.num_boxes + boxes,
              num_dofs   |-> acc.num_dofs + dofs,
              num_ghrows |-> acc.num_ghrows - dofs,
              avg_stsize |-> acc.avg_stsize
                               + (IF sized THEN IntToReal(g.stsize * g.dofs) ELSE 0),
              min_stsize |-> IF sized THEN Min(g.stsize, acc.min_stsize)
                                      ELSE acc.min_stsize,
              max_stsize |-> IF sized THEN Max(g.stsize, acc.max_stsize)
                                      ELSE acc.max_stsize ])

LocalSStats(kind, l, nparts) ==
  ScanParts(kind, l, 1, nparts,
    [ num_parts |-> 0, num_boxes |-> 0, num_dofs |-> 0,
      num_ghrows |-> RanGhlocalSize(kind, l, nparts), avg_stsize |-> 0,
      min_stsize |-> HYPRE_INT_MAX, max_stsize |-> HYPRE_INT_MIN ])

\* send_buffer of the 5-value sum and of the 2-value maximum
SendCounts(s) ==
  << IntToReal(s.num_parts), IntToReal(s.num_boxes), IntToReal(s.num_dofs),
     IntToReal(s.num_ghrows), s.avg_stsize >>

SendStencil(s) == << -IntToReal(s.min_stsize), IntToReal(s.max_stsize) >>

\* a real divided by an integer; a zero divisor gives no number
RealOverInt(x, n) == IF n = 0 THEN "nan" ELSE x \div n

\* hypre_MPI_Reduce to rank 0.  Every participant takes part in the k-th
\* collective of the communicator with its k-th call; the call returns once
\* all participants have made a matching one.
Matched(myid) ==
  LET k == Len(grp[myid].log) IN
  \A q \in Ranks :
     /\ Len(grp[q].log) >= k
     /\ grp[q].log[k].op = grp[myid].log[k].op
     /\ grp[q].log[k].count = grp[myid].log[k].count

\* recv_buffer of the k-th collective
RecvBuffer(k) ==
  [i \in 1 .. grp[0].log[k].count |->
     IF grp[0].log[k].op = "MAX"
       THEN MaxRanks([q \in Ranks |-> grp[q].log[k].buf[i]])
       ELSE SumRanks([q \in Ranks |-> grp[q].log[k].buf[i]], LastRank)]

Collective(op, q, buf) ==
  [op |-> op, count |-> Len(buf), l |-> q.l, ncall |-> q.ncalls, buf |-> buf]

\* where a participant continues after a reduction has returned
Mut_AfterReduce(at, l, num_levels) ==
  CASE at = "reduceU" -> IF l + 1 < num_levels THEN <<"gatherU", l + 1>>
                                               ELSE <<"gatherS", 0>>
    [] at = "reduceS" -> IF l + 1 < num_levels THEN <<"stencil", l>>
                         ELSE <<"print", l>>
    [] at = "reduceX" -> IF l + 1 < num_levels THEN <<"gatherS", l + 1>>
                                               ELSE <<"print", l>>

AfterReduce(at, l, num_levels) ==
  CASE at = "reduceU" -> IF l + 1 < num_levels THEN <<"gatherU", l + 1>>
                                               ELSE <<"gatherS", 0>>
    [] at = "reduceS" -> <<"stencil", l>>
    [] at = "reduceX" -> IF l + 1 < num_levels THEN <<"gatherS", l + 1>>
                                               ELSE <<"print", l>>

\* what the coordinating participant stores from recv_buffer
StoreRecv(snap, at, l, recv) ==
  CASE at = "reduceU" ->
         [snap EXCEPT ![l + 1].min_entries = -RealToInt(recv[1]),
                      ![l + 1].max_entries = RealToInt(recv[2]),
                      ![l + 1].min_rowsum  = -recv[3],
                      ![l + 1].max_rowsum  = recv[4]]
    [] at = "reduceS" ->
         [snap EXCEPT ![l + 1].num_parts  = RealToInt(recv[1]),
                      ![l + 1].num_boxes  = RealToInt(recv[2]),
                      ![l + 1].num_dofs   = RealToInt(recv[3]),
                      ![l + 1].num_ghrows = RealToInt(recv[4]),
                      ![l + 1].avg_stsize = RealOverInt(recv[5], RealToInt(recv[3]))]
    [] at = "reduceX" ->
         [snap EXCEPT ![l + 1].min_stsize = -RealToInt(recv[1]),
                      ![l + 1].max_stsize = RealToInt(recv[2])]

StatsFrame ==
  UNCHANGED <<handle, ssamg_data, dxyz, norms, rel_norms, norms_alloc, hier, refs,
              released, hypre_error_flag, pc, cyc, cyc_trace, run, ret, nsets,
              nsolves, fe>>

\* entry: rank, early return, allocation on the coordinating participant
PrintStatsEnter ==
  \E myid \in Ranks :
    /\ handle = "live" /\ pc = "idle"
    /\ ssamg_data.num_levels > -1
    /\ grp[myid].pc = "out"
    /\ grp[myid].ncalls < MaxStatCalls
    /\ IF EarlyReturn(ssamg_data.print_level)
         THEN grp' = [grp EXCEPT ![myid].ncalls = @ + 1]
         ELSE grp' = [grp EXCEPT ![myid] =
                        [AllocSnapshot(@, myid, ssamg_data.num_levels)
                           EXCEPT !.pc = "gatherU", !.l = 0]]
    /\ call' = [op |-> "PrintStats", arg |-> ssamg_data.num_levels]
    /\ out' = out
    /\ StatsFrame

\* one pass of the "Gather UMatrix info" loop up to its reduction
PrintStatsGatherU ==
  \E myid \in Ranks :
    LET q  == grp[myid]
        A  == q.A[q.l + 1]
        gc == GlobalCounts(A)
        s1 == IF myid = 0
                THEN [q.snap EXCEPT
                        ![q.l + 1].num_rows     = gc.num_rows,
                        ![q.l + 1].num_rownnz   = gc.num_rownnz,
                        ![q.l + 1].num_nonzeros = gc.num_nonzeros,
                        ![q.l + 1].avg_entries  =
                           IF gc.num_rownnz # 0
                             THEN RealOverInt(IntToReal(gc.num_nonzeros), gc.num_rownnz)
                             ELSE @]
                ELSE q.snap
    IN
    /\ handle = "live"
    /\ q.pc = "gatherU"
    /\ grp' = [grp EXCEPT ![myid] =
                 [q EXCEPT !.A[q.l + 1] = CachedCounts(A),
                           !.snap = s1,
                           !.log = Append(@, Collective("MAX", q,
                                                SendExtrema(LocalExtrema(A.rows)))),
                           !.pc = "reduceU"]]
    /\ UNCHANGED <<call, out>>
    /\ StatsFrame

\* a reduction returns; rank 0 takes the result out of recv_buffer
PrintStatsReduce ==
  \E myid \in Ranks :
    LET q  == grp[myid]
        nx == AfterReduce(q.pc, q.l, ssamg_data.num_levels)
    IN
    /\ handle = "live"
    /\ q.pc \in {"reduceU", "reduceS", "reduceX"}
    /\ Matched(myid)
    /\ grp' = [grp EXCEPT ![myid] =
                 [q EXCEPT !.snap = IF myid = 0
                                      THEN StoreRecv(@, q.pc, q.l, RecvBuffer(Len(q.log)))
                                      ELSE @,
                           !.pc = nx[1], !.l = nx[2]]]
    /\ UNCHANGED <<call, out>>
    /\ StatsFrame

\* one pass of the "Gather SMatrix info" loop up to its sum reduction
PrintStatsGatherS ==
  \E myid \in Ranks :
    LET q == grp[myid]
        s == LocalSStats(q.A[q.l + 1].kind, q.l, ssamg_data.nparts)
    IN
    /\ handle = "live"
    /\ q.pc = "gatherS"
    /\ grp' = [grp EXCEPT ![myid] =
                 [q EXCEPT !.log = Append(@, Collective("SUM", q, SendCounts(s))),
                           !.pc = "reduceS"]]
    /\ UNCHANGED <<call, out>>
    /\ StatsFrame

\* the stencil-size extrema of the same pass
PrintStatsStencil ==
  \E myid \in Ranks :
    LET q == grp[myid]
        s == LocalSStats(q.A[q.l + 1].kind, q.l, ssamg_data.nparts)
    IN
    /\ handle = "live"
    /\ q.pc = "stencil"
    /\ grp' = [grp EXCEPT ![myid] =
                 [q EXCEPT !.log = Append(@, Collective("MAX", q, SendStencil(s))),
                           !.pc = "reduceX"]]
    /\ UNCHANGED <<call, out>>
    /\ StatsFrame

\* "Print statistics": rank 0 formats its arrays, the others print nothing
PrintStatsPrint ==
  \E myid \in Ranks :
    /\ handle = "live"
    /\ grp[myid].pc = "print"
    /\ out' = IF myid = 0 THEN Append(out, grp[myid].snap) ELSE out
    /\ grp' = [grp EXCEPT ![myid].pc = "free"]
    /\ call' = call
    /\ StatsFrame

\* release of the arrays and return
PrintStatsReturn ==
  \E myid \in Ranks :
    /\ handle = "live"
    /\ grp[myid].pc = "free"
    /\ grp' = [grp EXCEPT ![myid] =
                 [ReleaseSnapshot(@, myid) EXCEPT !.pc = "out", !.l = 0,
                                                  !.ncalls = @ + 1]]
    /\ UNCHANGED <<call, out>>
    /\ StatsFrame

StatsStep ==
  \/ PrintStatsEnter \/ PrintStatsGatherU \/ PrintStatsReduce \/ PrintStatsGatherS
  \/ PrintStatsStencil \/ PrintStatsPrint \/ PrintStatsReturn

\* ------------------------------------------------------------ getters
hypre_SSAMGGetNumIterations ==
  /\ Idle
  /\ call' = [op |-> "GetNumIterations", arg |-> 0]
  /\ ret' = [status |-> hypre_error_flag, value |-> ssamg_data.num_iterations,
             written |-> TRUE]
  /\ UNCHANGED <<handle, ssamg_data, dxyz, norms, rel_norms, norms_alloc, hier, refs,
                 released, hypre_error_flag, pc, cyc, cyc_trace, run, nsets, nsolves>>
  /\ UNCHANGED <<stats_vars, fe>>

\* hypre_error_in_arg(1)
ErrorInArg1 == <<"HYPRE_ERROR_ARG", 1>>

\* 0-based index of rel_norms the getter reads
FinalNormIndex(num_iterations, max_iter) ==
  IF num_iterations = max_iter THEN num_iterations - 1 ELSE num_iterations

\* what the getter does for given option values: whether it raises the
\* argument error, whether it writes the caller's variable, and from which
\* entry of the history
FinalNormOutcome(logging, max_iter, num_iterations) ==
  IF logging > 0
    THEN IF max_iter = 0
           THEN [error |-> TRUE, written |-> FALSE, index |-> -1]
           ELSE [error |-> FALSE, written |-> TRUE,
                 index |-> FinalNormIndex(num_iterations, max_iter)]
    ELSE [error |-> FALSE, written |-> FALSE, index |-> -1]

\* prior is what the caller's variable held before the call
hypre_SSAMGGetFinalRelativeResidualNorm ==
  \E prior \in GarbageVals, garbage \in GarbageVals :
    LET idx == FinalNormIndex(ssamg_data.num_iterations, ssamg_data.max_iter) IN
    /\ Idle
    /\ call' = [op |-> "GetFinalRelativeResidualNorm", arg |-> prior]
    /\ IF ssamg_data.logging > 0
         THEN IF ssamg_data.max_iter = 0
                THEN /\ hypre_error_flag' = hypre_error_flag \cup {ErrorInArg1}
                     /\ ret' = [status |-> hypre_error_flag \cup {ErrorInArg1},
                                value |-> prior, written |-> FALSE]
                     /\ handle' = handle
                ELSE /\ hypre_error_flag' = hypre_error_flag
                     /\ IF norms_alloc /\ idx >= 0 /\ idx < Len(rel_norms)
                          THEN /\ ret' = [status |-> hypre_error_flag,
                                          value |-> rel_norms[idx + 1], written |-> TRUE]
                               /\ handle' = handle
                          ELSE \* read outside the history: any value, or a fault
                               /\ ret' = [status |-> hypre_error_flag,
                                          value |-> garbage, written |-> TRUE]
                               /\ handle' \in {"live", "crashed"}
         ELSE /\ hypre_error_flag' = hypre_error_flag
              /\ ret' = [status |-> hypre_error_flag, value |-> prior, written |-> FALSE]
              /\ handle' = handle
    /\ UNCHANGED <<ssamg_data, dxyz, norms, rel_norms, norms_alloc, hier, refs,
                   released, pc, cyc, cyc_trace, run, nsets, nsolves>>
    /\ UNCHANGED <<stats_vars, fe>>

\* ------------------------------------------------------------ Destroy
\* release calls of one coarse level l >= 1, in the order of the loop body
LevelCalls(l) ==
  << <<"relax_data_l", l>>, <<"matvec_data_l", l>>, <<"grid_l", l>>, <<"b_l", l>>,
     <<"x_l", l>>, <<"tx_l", l>>, <<"A_l", l>>, <<"P_l", l - 1>>, <<"RT_l", l - 1>>,
     <<"restrict_data_l", l - 1>>, <<"interp_data_l", l - 1>>, <<"cdir_l", l>>,
     <<"relax_weights", l>> >>

Level0Calls ==
  << <<"relax_data_l", 0>>, <<"matvec_data_l", 0>>, <<"b_l", 0>>, <<"x_l", 0>>,
     <<"tx_l", 0>>, <<"A_l", 0>>, <<"grid_l", 0>>, <<"cdir_l", 0>>,
     <<"relax_weights", 0>> >>

RECURSIVE CoarseCalls(_, _)
CoarseCalls(l, num_levels) ==
  IF l >= num_levels THEN <<>> ELSE LevelCalls(l) \o CoarseCalls(l + 1, num_levels)

RECURSIVE WeightCalls(_, _)
WeightCalls(l, max_levels) ==
  IF l >= max_levels THEN <<>>
  ELSE << <<"relax_weights", l>> >> \o WeightCalls(l + 1, max_levels)

\* the per-level releases without the test of num_levels
Mut_DestroyUnguarded(num_levels, max_levels) ==
  Level0Calls \o CoarseCalls(1, num_levels) \o WeightCalls(num_levels, max_levels)

\* every per-level release call of hypre_SSAMGDestroy, in program order
Mut_DestroyCalls(num_levels, max_levels) ==
  IF num_levels > -1
    THEN Level0Calls \o << <<"A_l", 0>> >> \o CoarseCalls(1, num_levels)
           \o WeightCalls(num_levels, max_levels)
    ELSE <<>>

DestroyCalls(num_levels, max_levels) ==
  IF num_levels > -1
    THEN Level0Calls \o CoarseCalls(1, num_levels) \o WeightCalls(num_levels, max_levels)
    ELSE <<>>

\* the spacing triples dxyz[p] the release loop reads:
\* for (p = 0; p < nparts; p++)
DestroyDxyzReads(nparts) == 0 .. nparts - 1

\* a slot index outside the arrays setup allocated
OutOfArray(o) == o[2] >= hier.alloc_levels

\* destroy / free of one object: drop one reference; a null slot is a no-op
ReleaseOne(r, o) ==
  IF o \in DOMAIN r /\ r[o] > 0 THEN [r EXCEPT ![o] = @ - 1] ELSE r

RECURSIVE ReleaseAll(_, _)
ReleaseAll(r, calls) ==
  IF calls = <<>> THEN r ELSE ReleaseAll(ReleaseOne(r, Head(calls)), Tail(calls))

\* a release of something already gone, or of a slot outside its array
RECURSIVE InvalidRelease(_, _)
InvalidRelease(r, calls) ==
  IF calls = <<>> THEN FALSE
  ELSE \/ OutOfArray(Head(calls))
       \/ (Head(calls) \in DOMAIN r /\ r[Head(calls)] = 0)
       \/ InvalidRelease(ReleaseOne(r, Head(calls)), Tail(calls))

hypre_SSAMGDestroy ==
  LET calls == DestroyCalls(ssamg_data.num_levels, ssamg_data.max_levels) IN
  /\ Idle
  /\ IF ssamg_data.logging > 0
       THEN norms_alloc' = FALSE /\ norms' = <<>> /\ rel_norms' = <<>>
       ELSE UNCHANGED <<norms_alloc, norms, rel_norms>>
  /\ refs' = ReleaseAll(refs, calls)
  /\ released' = released \o calls
  /\ dxyz' = <<>>
  /\ IF InvalidRelease(refs, calls)
       THEN handle' \in {"destroyed", "crashed"}
       ELSE handle' = "destroyed"
  /\ call' = [op |-> "Destroy", arg |-> 0]
  /\ ret' = [NoRet EXCEPT !.status = hypre_error_flag]
  /\ UNCHANGED <<ssamg_data, hier, hypre_error_flag, pc, cyc, cyc_trace, run,
                 nsets, nsolves>>
  /\ UNCHANGED <<stats_vars, fe>>

\* hypre_SSAMGDestroy(NULL): the body is skipped, the error status returned
DestroyNull ==
  /\ handle # "crashed"
  /\ pc = "idle"
  /\ GroupSync
  /\ call' = [op |-> "DestroyNull", arg |-> 0]
  /\ ret' = [NoRet EXCEPT !.status = hypre_error_flag]
  /\ UNCHANGED <<handle, ssamg_data, dxyz, norms, rel_norms, norms_alloc, hier, refs,
                 released, hypre_error_flag, pc, cyc, cyc_trace, run, nsets, nsolves>>
  /\ UNCHANGED <<stats_vars, fe>>

\* ------------------------------------------------------------ FE vector calls
\* HYPRE_FEVectorGetRHS(vector, &object) for a null or non-null vector on mesh
\* `mesh`, with `rhs` in the core and `prior` in the caller's variable: the
\* return code, the caller's variable afterwards, the calls made on the core
FEVectorGetRHS(vector_null, mesh, rhs, prior) ==
  IF vector_null
    THEN [ierr |-> 1, object |-> prior, core |-> <<>>, fei |-> <<>>]
  ELSE IF mesh.null
    THEN [ierr |-> 1, object |-> prior, core |-> <<>>, fei |-> <<>>]
  ELSE IF mesh.linSys_ # "NULL"
    THEN [ierr |-> 0, object |-> rhs, core |-> <<"copyOutRHSVector">>, fei |-> <<>>]
    ELSE [ierr |-> 1, object |-> "NULL", core |-> <<>>, fei |-> <<>>]

HYPRE_FEVectorGetRHS ==
  \E vector_null \in BOOLEAN, prior \in PriorObjects :
    /\ fe.ncalls < MaxFECalls
    /\ call' = [op |-> "FEVectorGetRHS",
                arg |-> [vector_null |-> vector_null, object |-> prior, code |-> 0]]
    /\ ret' = [NoRet EXCEPT !.value = FEVectorGetRHS(vector_null, fe.mesh_, fe.rhs, prior)]
    /\ fe' = [fe EXCEPT !.ncalls = @ + 1]
    /\ UNCHANGED <<handle, ssamg_data, dxyz, norms, rel_norms, norms_alloc, hier, refs,
                   released, hypre_error_flag, pc, cyc, cyc_trace, run, nsets, nsolves>>
    /\ UNCHANGED stats_vars

\* HYPRE_FEVectorSetSol(vector, object); have_fei is the build option
\* HAVE_FEI, code what the solve of the FEI instance returns
FEVectorSetSol(vector_null, mesh, object, have_fei, code) ==
  IF vector_null
    THEN [ierr |-> 1, object |-> object, core |-> <<>>, fei |-> <<>>]
  ELSE IF mesh.null
    THEN [ierr |-> 1, object |-> object, core |-> <<>>, fei |-> <<>>]
  ELSE IF mesh.linSys_ # "NULL"
    THEN IF mesh.feiPtr_ # "NULL"
              /\ (have_fei => mesh.objectType_ \in {1, 2})
           THEN [ierr |-> code, object |-> object,
                 core |-> <<"copyInRHSVector">>, fei |-> <<"solve">>]
           ELSE [ierr |-> 0, object |-> object,
                 core |-> <<"copyInRHSVector">>, fei |-> <<>>]
    ELSE [ierr |-> 1, object |-> object, core |-> <<>>, fei |-> <<>>]

HYPRE_FEVectorSetSol ==
  \E vector_null \in BOOLEAN, object \in SolObjects, have_fei \in BOOLEAN,
     code \in SolveCodes :
    LET r == FEVectorSetSol(vector_null, fe.mesh_, object, have_fei, code) IN
    /\ fe.ncalls < MaxFECalls
    /\ call' = [op |-> "FEVectorSetSol",
                arg |-> [vector_null |-> vector_null, object |-> object, code |-> code]]
    /\ ret' = [NoRet EXCEPT !.value = r]
    /\ fe' = [fe EXCEPT !.ncalls = @ + 1,
                        !.rhs = IF r.core # <<>> THEN object ELSE @]
    /\ UNCHANGED <<handle, ssamg_data, dxyz, norms, rel_norms, norms_alloc, hier, refs,
                   released, hypre_error_flag, pc, cyc, cyc_trace, run, nsets, nsolves>>
    /\ UNCHANGED stats_vars

\* ------------------------------------------------------------ specification
Next ==
  \/ SetTol \/ SetMaxIter \/ SetMaxLevels \/ SetRelChange \/ SetZeroGuess
  \/ SetRelaxType \/ SetRelaxWeight \/ SetNumPreRelax \/ SetNumPosRelax
  \/ SetNumCoarseRelax \/ SetPrintLevel \/ SetLogging \/ SetDxyz
  \/ hypre_SSAMGSetup
  \/ SolveBegin
  \/ PreSmooth \/ Residual \/ Restrict \/ CoarseSolve \/ Interpolate \/ PostSmooth
  \/ ConvergenceCheck
  \/ hypre_SSAMGPrintLogging
  \/ hypre_SSAMGPrintStats
  \/ hypre_SSAMGGetNumIterations
  \/ hypre_SSAMGGetFinalRelativeResidualNorm
  \/ hypre_SSAMGDestroy

Spec == Init /\ [][Next]_vars

\* the solve engine alone: the options it reads, setup, solve, destroy.  Control
\* flow is single-threaded, so a solve that has started keeps running.
NextSolve ==
  \/ SetMaxIter \/ SetMaxLevels \/ SetRelChange
  \/ hypre_SSAMGSetup
  \/ SolveBegin
  \/ PreSmooth \/ Residual \/ Restrict \/ CoarseSolve \/ Interpolate \/ PostSmooth
  \/ ConvergenceCheck
  \/ hypre_SSAMGDestroy

SpecSolve == Init /\ [][NextSolve]_vars /\ WF_vars(SolveStep)

\* the option store: every scalar setter, around setup and solve
NextSet ==
  \/ SetTol \/ SetMaxIter \/ SetMaxLevels \/ SetRelChange \/ SetZeroGuess
  \/ SetRelaxType \/ SetRelaxWeight \/ SetNumPreRelax \/ SetNumPosRelax
  \/ SetNumCoarseRelax \/ SetPrintLevel \/ SetLogging
  \/ hypre_SSAMGSetup
  \/ SolveBegin
  \/ PreSmooth \/ Residual \/ Restrict \/ CoarseSolve \/ Interpolate \/ PostSmooth
  \/ ConvergenceCheck

SpecSet == Init /\ [][NextSet]_vars

\* the convergence history: the options that steer it, setup, solve, the
\* getters, the history printout, destroy
NextLog ==
  \/ SetMaxIter \/ SetPrintLevel \/ SetLogging
  \/ hypre_SSAMGSetup
  \/ SolveBegin
  \/ PreSmooth \/ Residual \/ Restrict \/ CoarseSolve \/ Interpolate \/ PostSmooth
  \/ ConvergenceCheck
  \/ hypre_SSAMGPrintLogging
  \/ hypre_SSAMGGetNumIterations
  \/ hypre_SSAMGGetFinalRelativeResidualNorm
  \/ hypre_SSAMGDestroy

SpecLog == Init /\ [][NextLog]_vars

\* the same operations on an object whose print and logging levels were chosen
\* beforehand
SpecHist == InitHist /\ [][NextLog]_vars

\* an object that is configured and destroyed but never set up
NextFresh ==
  \/ SetTol \/ SetMaxIter \/ SetMaxLevels \/ SetRelChange \/ SetZeroGuess
  \/ SetRelaxType \/ SetRelaxWeight \/ SetNumPreRelax \/ SetNumPosRelax
  \/ SetNumCoarseRelax \/ SetPrintLevel \/ SetLogging
  \/ hypre_SSAMGGetNumIterations
  \/ hypre_SSAMGGetFinalRelativeResidualNorm
  \/ hypre_SSAMGDestroy
  \/ DestroyNull

SpecFresh == Init /\ [][NextFresh]_vars

\* the FE vector interface
NextFE ==
  \/ HYPRE_FEVectorGetRHS
  \/ HYPRE_FEVectorSetSol

SpecFE == InitFE /\ [][NextFE]_vars

\* the statistics printout as the participants execute it together.  Every
\* participant is a running process and makes the same calls, so a step that
\* stays possible is taken.
NextStats ==
  \/ SetPrintLevel
  \/ hypre_SSAMGSetup
  \/ PrintStatsEnter \/ PrintStatsGatherU \/ PrintStatsReduce \/ PrintStatsGatherS
  \/ PrintStatsStencil \/ PrintStatsPrint \/ PrintStatsReturn

SpecStats == InitStats /\ [][NextStats]_vars /\ WF_vars(StatsStep)

\* ============================================================ claims

ScalarSetterField ==
  [ SetTol |-> "tol", SetMaxIter |-> "max_iter", SetMaxLevels |-> "max_levels",
    SetRelChange |-> "rel_change", SetZeroGuess |-> "zero_guess",
    SetRelaxType |-> "relax_type", SetRelaxWeight |-> "usr_relax_weight",
    SetNumPreRelax |-> "num_pre_relax", SetNumPosRelax |-> "num_post_relax",
    SetNumCoarseRelax |-> "num_coarse_relax", SetPrintLevel |-> "print_level",
    SetLogging |-> "logging" ]

\* the value a caller reads back from the field a setter stores into, as a
\* value of the setter's parameter type (rel_change is an integer flag read
\* against a real parameter)
ReadBack(op) ==
  IF op = "SetRelChange"
    THEN IntToReal(ssamg_data[ScalarSetterField[op]])
    ELSE ssamg_data[ScalarSetterField[op]]

\* C1: the final-relative-residual getter called with max_iter == 0 returns a
\* non-zero status, whatever logging and num_iterations are (as claimed).
C1_ErrorWhenNoIterations ==
  (handle = "live" /\ call.op = "GetFinalRelativeResidualNorm"
     /\ ssamg_data.max_iter = 0)
    => (ret.status # {})

\* order of the phases of one cycle entered at level l of an L-level hierarchy
RECURSIVE CycleOrder(_, _)
CycleOrder(l, L) ==
  IF l >= L - 1
    THEN << <<"CoarseSolve", l>> >>
    ELSE << <<"PreSmooth", l>>, <<"Residual", l>>, <<"Restrict", l>> >>
           \o CycleOrder(l + 1, L)
           \o << <<"Interpolate", l>>, <<"PostSmooth", l>> >>

IsPrefix(a, b) == Len(a) <= Len(b) /\ \A i \in 1 .. Len(a) : a[i] = b[i]

\* C2: the phases a cycle has executed so far are always an initial part of
\* PreSmooth(l), Residual(l), Restrict(l), cycle(l+1), Interpolate(l),
\* PostSmooth(l) nested from level 0, the next phase to run is the one that
\* follows in that order, and a finished cycle has executed all of it.
C2_PhaseOrder ==
  LET order == CycleOrder(0, ssamg_data.num_levels) IN
  /\ (pc \in {"cycle", "check"} => IsPrefix(cyc_trace, order))
  /\ (pc = "cycle" => /\ Len(cyc_trace) < Len(order)
                      /\ cyc = order[Len(cyc_trace) + 1])
  /\ (pc = "check" => cyc_trace = order)

C2_Witness ==
  /\ pc = "check"
  /\ ssamg_data.num_levels = 3
  /\ Len(cyc_trace) = 11
  /\ cyc_trace[4] = <<"PreSmooth", 1>>
  /\ cyc_trace[7] = <<"CoarseSolve", 2>>

\* C3: state part.  While a solve runs the budget is not used up; when it has
\* ended, num_iterations <= max(max_iter, 0), every counted iteration is one
\* cycle, a converged solve met a stop criterion, a solve that ran out of
\* budget did exactly max_iter cycles and raised no error.
C3_SolveInv ==
  /\ (pc # "idle" => /\ ssamg_data.num_iterations < ssamg_data.max_iter
                     /\ run.cycles = ssamg_data.num_iterations
                     /\ run.status = "running")
  /\ (pc = "idle" /\ call.op = "Solve" =>
        /\ ssamg_data.num_iterations <= Max(ssamg_data.max_iter, 0)
        /\ ssamg_data.num_iterations = run.cycles
        /\ run.status \in {"converged", "budget", "zero_r0", "no_iter"}
        /\ (run.status = "converged" =>
              run.final_rel < ssamg_data.tol \/ ssamg_data.rel_change # 0)
        /\ (run.status = "budget" =>
              /\ ssamg_data.num_iterations = ssamg_data.max_iter
              /\ ~(run.final_rel < ssamg_data.tol))
        /\ (run.status \in {"zero_r0", "no_iter"} => ssamg_data.num_iterations = 0)
        /\ ret.status = hypre_error_flag)

\* C3: step part.  The counter moves only by the reset at the entry of a solve
\* or by one after a complete cycle that started at level 0; no step of a
\* solve raises an error.
C3_SolveStep ==
  /\ (ssamg_data'.num_iterations # ssamg_data.num_iterations =>
        \/ (pc = "idle" /\ call'.op = "Solve" /\ ssamg_data'.num_iterations = 0)
        \/ /\ pc = "check"
           /\ ssamg_data'.num_iterations = ssamg_data.num_iterations + 1
           /\ cyc_trace = CycleOrder(0, ssamg_data.num_levels)
           /\ cyc_trace[1][2] = 0)
  /\ (pc # "idle" \/ pc' # "idle" => hypre_error_flag' = hypre_error_flag)

\* C3 (amended): a solve always terminates, at the first iteration that meets a
\* stop criterion or after exactly max(max_iter, 0) cycles; when a solve has
\* ended num_iterations <= max(max_iter, 0); each counted iteration is exactly
\* one full cycle started at level 0; running out of budget raises no error.
C3_SolveTerminates ==
  /\ []C3_SolveInv
  /\ [][C3_SolveStep]_vars
  /\ ((pc # "idle") ~> (pc = "idle"))

C3_Witness ==
  /\ pc = "idle" /\ call.op = "Solve"
  /\ run.status = "budget"
  /\ ssamg_data.num_iterations = 2
  /\ ssamg_data.max_iter = 2

\* C3 as claimed: num_iterations <= max_iter in every reachable state.
C3_IterationsWithinBudgetAlways ==
  ssamg_data.num_iterations <= ssamg_data.max_iter

\* C4: after a solve whose initial residual norm is 0, no cycle has run,
\* num_iterations is 0 and the getter delivers a relative residual of 0 (as
\* claimed).
C4_ZeroResidualReportsZero ==
  (handle = "live" /\ call.op = "GetFinalRelativeResidualNorm"
     /\ run.status = "zero_r0")
    => /\ run.cycles = 0
       /\ ssamg_data.num_iterations = 0
       /\ ret.written
       /\ ret.value = 0

\* C5: once set up, num_levels <= max_levels and the coarsening-direction
\* record has num_levels - 1 rows, after any calls (as claimed).
C5_LevelsWithinMax ==
  (handle = "live" /\ ssamg_data.num_levels > -1)
    => /\ ssamg_data.num_levels <= ssamg_data.max_levels
       /\ Len(hier.cdir_l) = ssamg_data.num_levels - 1

\* b has to be released before a: a is a structure of level l, b is a transfer
\* operator or context of the transition l -> l+1 or a structure of level l+1
MustPrecede(b, a, num_levels) ==
  /\ a[1] \notin TransferKinds
  /\ a[2] < num_levels - 1
  /\ \/ (b[1] \in TransferKinds /\ b[2] = a[2])
     \/ (b[1] \notin TransferKinds /\ b[2] = a[2] + 1)

\* C6: destroy releases the transfer operators of l -> l+1 and everything of
\* level l+1 before anything of level l (as claimed).
C6_DependencyOrder ==
  (call.op = "Destroy") =>
     \A i, j \in DOMAIN released :
        (i < j) => ~MustPrecede(released[j], released[i], ssamg_data.num_levels)

C8_PrintStatsReadOnly ==
  [][call'.op = "PrintStats" => solver_vars' = solver_vars]_vars

\* C9: a scalar setter call raises no error and changes its own field only:
\* every other field, the spacing, the norm history, the hierarchy and the
\* solve bookkeeping stay as they were, before setup, after setup and after a
\* solve.
C9_SetterFrame ==
  [][(nsets' # nsets /\ call'.op \in DOMAIN ScalarSetterField) =>
       /\ \A f \in Fields \ {ScalarSetterField[call'.op]} :
             ssamg_data'[f] = ssamg_data[f]
       /\ ssamg_data'[ScalarSetterField[call'.op]] =
            (IF call'.op = "SetRelChange" THEN RealToInt(call'.arg) ELSE call'.arg)
       /\ UNCHANGED <<handle, dxyz, norms, rel_norms, norms_alloc, hier, refs,
                      released, hypre_error_flag, pc, run>>
       /\ ret'.status = hypre_error_flag]_vars

C9_Witness ==
  /\ call.op = "SetLogging" /\ ssamg_data.logging = 2
  /\ nsolves = 1 /\ pc = "idle"
  /\ ssamg_data.num_iterations = 2
  /\ ssamg_data.num_levels = 2

\* C10: the field read back right after a setter call is exactly the value
\* passed, for every setter including SetRelChange and, per part and axis,
\* SetDxyz (as claimed).
C10_SetterRoundTrip ==
  /\ (call.op \in DOMAIN ScalarSetterField => ReadBack(call.op) = call.arg)
  /\ (call.op = "SetDxyz" /\ handle = "live" =>
        \A p \in DOMAIN call.arg : p \in DOMAIN dxyz => dxyz[p] = call.arg[p])

\* C12: a PrintLogging call prints no row and reads no entry of the norm
\* arrays unless it runs on rank 0 with print_level > 0 and logging > 1 (then
\* it prints at least the row of iteration 0), and it never changes the solver
\* state.
C12_PrintLoggingGuard ==
  [][call'.op = "PrintLogging" =>
       /\ solver_vars' = solver_vars
       /\ hypre_error_flag' = hypre_error_flag
       /\ ret'.status = hypre_error_flag
       /\ IF call'.arg = 0 /\ ssamg_data.print_level > 0 /\ ssamg_data.logging > 1
            THEN /\ ret'.value.rows # <<>>
                 /\ ret'.value.rows[1] = 0
            ELSE /\ ret'.value.rows = <<>>
                 /\ ret'.value.reads = {}
                 /\ handle' = handle]_vars

C12_Witness ==
  /\ call.op = "PrintLogging" /\ call.arg = 0
  /\ ssamg_data.print_level > 0 /\ ssamg_data.logging = 1
  /\ ssamg_data.num_levels > -1
  /\ nsolves = 1
  /\ ret.value.rows = <<>>

\* C17: after a solve that used its whole budget (num_iterations = max_iter
\* > 0) the iteration getter returns max_iter, and the residual getter raises
\* no error and delivers the last relative residual norm of that solve (as
\* claimed).
C17_BudgetExhaustedIsReported ==
  (run.status = "budget" /\ ssamg_data.max_iter > 0
     /\ ssamg_data.num_iterations = ssamg_data.max_iter) =>
    /\ (call.op = "GetNumIterations" =>
          ret.status = {} /\ ret.value = ssamg_data.max_iter)
    /\ (call.op = "GetFinalRelativeResidualNorm" =>
          /\ ret.status = {}
          /\ ret.written
          /\ ret.value = run.final_rel)

\* C18: destroy leaves no norm array allocated, whatever SetLogging calls and
\* solves came before, and with logging 0 the residual getter still delivers
\* the final relative residual of the last solve (as claimed).
C18_NormArraysFollowLogging ==
  /\ (call.op = "Destroy" => ~norms_alloc)
  /\ (call.op = "GetFinalRelativeResidualNorm" /\ ssamg_data.logging = 0
        /\ nsolves > 0 /\ ssamg_data.max_iter # 0) =>
       (ret.written /\ ret.value = run.final_rel)

\* how often destroy issued a release of object o
ReleaseCount(o) == Cardinality({i \in DOMAIN released : released[i] = o})

\* C19: destroy releases every per-level resource the hierarchy was allocated
\* with exactly once, touches no slot outside the allocated arrays, and for the
\* levels from num_levels on releases the relaxation-weight slot only (as
\* claimed).
C19_EachLevelResourceReleasedOnce ==
  (call.op = "Destroy" /\ ssamg_data.num_levels > -1) =>
    /\ \A o \in HierObjects(ssamg_data.num_levels, hier.alloc_levels) :
          ReleaseCount(o) = 1
    /\ \A i \in DOMAIN released :
          /\ ~OutOfArray(released[i])
          /\ (released[i][2] >= ssamg_data.num_levels =>
                released[i][1] = "relax_weights")

\* C20: the spacing array holds one triple per part, and a SetDxyz call writes
\* to existing triples only (as claimed).
C20_SpacingArrayMatchesParts ==
  /\ (handle = "live" => Len(dxyz) = Max(ssamg_data.nparts, 0))
  /\ (call.op = "SetDxyz" =>
        /\ handle = "live"
        /\ Len(call.arg) <= Len(dxyz))

\* C11: with print_level == 0 a PrintStats call is a no-op on every
\* participant: the call returns in its first step having allocated nothing,
\* issued no reduction and touched no level matrix, so that no participant is
\* ever inside the call, let alone waiting in a collective.
C11_NoOpAtPrintLevelZero ==
  /\ [](ssamg_data.print_level = 0 =>
          \A r \in Ranks : grp[r].pc = "out" /\ ~grp[r].allocd)
  /\ [][\A r \in Ranks :
          (ssamg_data.print_level = 0 /\ grp'[r] # grp[r]) =>
             /\ grp'[r] = [grp[r] EXCEPT !.ncalls = @ + 1]
             /\ out' = out
             /\ solver_vars' = solver_vars]_vars

C11_Witness ==
  /\ call.op = "PrintStats"
  /\ ssamg_data.print_level = 0
  /\ ssamg_data.num_levels = 2
  /\ \A r \in Ranks : grp[r].ncalls = 1 /\ grp[r].log = <<>> /\ grp[r].pc = "out"
  /\ out = <<>>

SetMin(S) == CHOOSE x \in S : \A y \in S : x <= y
SetMax(S) == CHOOSE x \in S : \A y \in S : x >= y

\* the values of table t are the extrema over the participants' local values
ExtremaOverParticipants(t) ==
  \A i \in DOMAIN t :
    LET u(q) == LocalExtrema(grp[q].A[i].rows)
        s(q) == LocalSStats(grp[q].A[i].kind, i - 1, ssamg_data.nparts)
    IN
    /\ t[i].min_entries = SetMin({u(q).min_entries : q \in Ranks})
    /\ t[i].max_entries = SetMax({u(q).max_entries : q \in Ranks})
    /\ t[i].min_rowsum  = SetMin({u(q).min_rowsum : q \in Ranks})
    /\ t[i].max_rowsum  = SetMax({u(q).max_rowsum : q \in Ranks})
    /\ t[i].min_stsize  = SetMin({s(q).min_stsize : q \in Ranks})
    /\ t[i].max_stsize  = SetMax({s(q).max_stsize : q \in Ranks})

\* C13: in every table rank 0 has printed, and in its arrays once the last
\* reduction has returned, each level's minimum is the minimum over the
\* participants of the local minimum and each maximum the maximum of the local
\* maxima, for entries per row, row sums and stencil sizes.
C13_SignTrick ==
  /\ \A k \in DOMAIN out : ExtremaOverParticipants(out[k])
  /\ (grp[0].pc \in {"print", "free"} => ExtremaOverParticipants(grp[0].snap))

C13_Witness ==
  /\ Len(out) = 1
  /\ grp[0].A[1].kind = "few" /\ grp[1].A[1].kind = "many"
  /\ ssamg_data.num_levels = 3
  /\ out[1][1].min_entries = 1 /\ out[1][1].max_entries = 7
  /\ out[1][1].min_rowsum = -RealDen /\ out[1][1].max_rowsum = RealDen + Half
  /\ out[1][3].min_entries = 0
  /\ out[1][2].min_stsize = 5 /\ out[1][2].max_stsize = 7

\* C14: the diagnostics arrays exist on rank 0 only and only while rank 0 is
\* inside the call; only rank 0 takes reduction results and prints, and what
\* it prints are these arrays.
C14_SnapshotOnRankZeroDuringCall ==
  /\ [](\A r \in Ranks :
          /\ (r # 0 => ~grp[r].allocd /\ grp[r].snap = <<>>)
          /\ (grp[r].pc = "out" => ~grp[r].allocd /\ grp[r].snap = <<>>)
          /\ (r = 0 /\ grp[r].pc # "out" =>
                grp[r].allocd /\ Len(grp[r].snap) = ssamg_data.num_levels))
  /\ [][out' # out =>
          /\ grp[0].pc = "print" /\ grp'[0].pc = "free"
          /\ out' = Append(out, grp[0].snap)]_vars

C14_Witness ==
  /\ Len(out) = 1
  /\ \A r \in Ranks : grp[r].pc = "out" /\ grp[r].ncalls = 1 /\ ~grp[r].allocd
  /\ ssamg_data.num_levels = 2

\* the reductions of one call over num_levels levels
RECURSIVE LevelColls(_, _, _)
LevelColls(kind, l, num_levels) ==
  IF l >= num_levels THEN <<>>
  ELSE (IF kind = "U" THEN << <<"MAX", 4, l>> >>
                      ELSE << <<"SUM", 5, l>>, <<"MAX", 2, l>> >>)
       \o LevelColls(kind, l + 1, num_levels)

ExpectedColls(num_levels) ==
  LevelColls("U", 0, num_levels) \o LevelColls("S", 0, num_levels)

\* the reductions participant r issued in its call number c
CallColls(r, c) ==
  LET s == SelectSeq(grp[r].log, LAMBDA e : e.ncall = c)
  IN [k \in 1 .. Len(s) |-> <<s[k].op, s[k].count, s[k].l>>]

\* C15: every participant issues, in each call that passes the print_level
\* test, the same reductions in the same order: a 4-value maximum per level,
\* then per level a 5-value sum and a 2-value maximum, whatever its rank and
\* its local data; and whenever some participant is inside the call, all
\* participants get out of it.
C15_SameCollectivesNoDeadlock ==
  /\ [](\A r \in Ranks : \A c \in 0 .. MaxStatCalls - 1 :
          /\ IsPrefix(CallColls(r, c), ExpectedColls(ssamg_data.num_levels))
          /\ (grp[r].ncalls > c =>
                CallColls(r, c) \in {<<>>, ExpectedColls(ssamg_data.num_levels)})
          /\ \A q \in Ranks :
                (grp[r].ncalls > c /\ grp[q].ncalls > c) =>
                   CallColls(r, c) = CallColls(q, c))
  /\ ((\E r \in Ranks : grp[r].pc # "out") ~> (\A r \in Ranks : grp[r].pc = "out"))

C15_Witness ==
  /\ \A r \in Ranks : grp[r].pc = "out" /\ grp[r].ncalls = 1
  /\ ssamg_data.num_levels = 3
  /\ grp[1].A[1].kind = "none" /\ grp[0].A[1].kind = "many"
  /\ Len(grp[1].log) = 9
  /\ CallColls(1, 0) = CallColls(0, 0)

\* C16: all tables printed by consecutive PrintStats calls are identical.
C16_StatsIdempotent ==
  \A i \in DOMAIN out : \A j \in DOMAIN out : out[i] = out[j]

C16_Witness ==
  /\ Len(out) = 2
  /\ ssamg_data.num_levels = 2
  /\ out[2][1].num_nonzeros > 0
  /\ out[2][2].num_dofs > 0
  /\ \A r \in Ranks : grp[r].pc = "out"

C22_GetterReadsExistingEntry ==
  ( /\ call.op = "GetFinalRelativeResidualNorm"
    /\ ssamg_data.logging > 0
    /\ ssamg_data.max_iter > 0
    /\ ssamg_data.num_iterations >= 0
    /\ ssamg_data.num_iterations <= ssamg_data.max_iter
    /\ norms_alloc
    /\ Len(rel_norms) = ssamg_data.num_iterations )
  => LET idx == FinalNormIndex(ssamg_data.num_iterations, ssamg_data.max_iter) IN
       idx >= 0 /\ idx < Len(rel_norms)

\* C23: when the history is printed the row numbers are strictly increasing (no
\* iteration is reported twice), every row number lies in
\* [0, max(num_iterations - 1, 0)], and the convergence rate of every row
\* i >= 1 is norms[i] / norms[i-1].
C23_LoggingRowsOrdered ==
  (call.op = "PrintLogging" /\ ret.value.rows # <<>>) =>
    LET rows  == ret.value.rows
        rates == ret.value.rates
    IN /\ \A k \in 1 .. Len(rows) - 1 : rows[k] < rows[k + 1]
       /\ \A k \in 1 .. Len(rows) :
            /\ rows[k] >= 0
            /\ rows[k] <= Max(ssamg_data.num_iterations - 1, 0)
            /\ rows[k] >= 1 => rates[k] = <<rows[k], rows[k] - 1>>

\* C24: what the residual getter delivers depends only on the last solve:
\* whatever setters are called between the solve and the getter, it writes
\* the caller's variable or not, reads the same history entry and raises an
\* error or not exactly as it would have right after the solve.
C24_GetterDependsOnlyOnSolve ==
  (call.op = "GetFinalRelativeResidualNorm" /\ run.status \notin {"none", "running"}) =>
    LET then == FinalNormOutcome(run.logging, run.max_iter, ssamg_data.num_iterations)
        now  == FinalNormOutcome(ssamg_data.logging, ssamg_data.max_iter,
                                 ssamg_data.num_iterations)
    IN /\ ret.written = then.written
       /\ now.index = then.index
       /\ ~then.error => ErrorInArg1 \notin ret.status

\* the non-zero rows of level matrix i of all participants together
NonZeroRows(i) ==
  UNION {{grp[q].A[i].rows[k] : k \in DOMAIN grp[q].A[i].rows} : q \in Ranks}

\* C25: for every level that has a non-zero row on some participant, the
\* printed minimum of entries per row and the printed minimum and maximum row
\* sum are the extrema over all non-zero rows of all participants; a
\* participant without non-zero rows at that level has no influence on them.
C25_ExtremaOverNonZeroRows ==
  \A k \in DOMAIN out : \A i \in DOMAIN out[k] :
    NonZeroRows(i) # {} =>
      /\ out[k][i].min_entries = SetMin({r.entries : r \in NonZeroRows(i)})
      /\ out[k][i].min_rowsum  = SetMin({r.rowsum : r \in NonZeroRows(i)})
      /\ out[k][i].max_rowsum  = SetMax({r.rowsum : r \in NonZeroRows(i)})

\* the parts that own at least one box of level matrix i on some participant
ActiveParts(i) ==
  {part \in 1 .. ssamg_data.nparts :
     \E q \in Ranks :
       LET g == LocalSMatrix(grp[q].A[i].kind, i - 1, part) IN
         g.present /\ g.boxes # 0}

\* C26: the number of active parts printed for a level is the number of distinct
\* parts that own a box at that level and never exceeds the number of parts of
\* the level matrix, also when the boxes of one part lie on several
\* participants.
C26_ActivePartsAreDistinctParts ==
  \A k \in DOMAIN out : \A i \in DOMAIN out[k] :
    /\ out[k][i].num_parts = Cardinality(ActiveParts(i))
    /\ out[k][i].num_parts <= ssamg_data.nparts

\* C27: an object that was created and configured with scalar setters but
\* never set up can always be destroyed safely: num_levels and nparts are
\* still -1, so Destroy issues no per-level release, reads no spacing triple
\* and releases nothing that does not exist.  Destroy of a null handle changes
\* nothing and returns the current error status.
C27_UnsetHandleIsDestroyable ==
  /\ [](ssamg_data.num_levels = -1 /\ ssamg_data.nparts = -1)
  /\ [](call.op = "Destroy" =>
          /\ handle = "destroyed"
          /\ DestroyCalls(ssamg_data.num_levels, ssamg_data.max_levels) = <<>>
          /\ DestroyDxyzReads(ssamg_data.nparts) = {}
          /\ released = <<>>
          /\ DOMAIN refs = {}
          /\ ~norms_alloc
          /\ ret.status = hypre_error_flag)
  /\ [][call'.op = "DestroyNull" =>
          /\ UNCHANGED <<handle, ssamg_data, dxyz, norms, rel_norms, norms_alloc,
                         hier, refs, released, hypre_error_flag>>
          /\ ret'.status = hypre_error_flag]_vars

C27_Witness ==
  /\ call.op = "Destroy"
  /\ handle = "destroyed"
  /\ nsets = MaxSets
  /\ ssamg_data.logging > 0
  /\ ssamg_data.max_levels > 0
  /\ ssamg_data.num_levels = -1

\* all of the vector, its mesh and the mesh's linear-system core are present
FEAllPresent ==
  ~call.arg.vector_null /\ ~fe.mesh_.null /\ fe.mesh_.linSys_ # "NULL"

\* C28: HYPRE_FEVectorGetRHS and HYPRE_FEVectorSetSol return 1 without calling
\* the linear-system core whenever the vector, its mesh or the core is null;
\* GetRHS returns 0 and delivers the right-hand side exactly when all three are
\* present, and after every non-zero return its output object is null; SetSol
\* loads the vector into the core and, when an FEI instance is attached,
\* returns the status of its solve.
C28_FEVectorReturnCodes ==
  /\ call.op \in {"FEVectorGetRHS", "FEVectorSetSol"} /\ ~FEAllPresent =>
       ret.value.ierr = 1 /\ ret.value.core = <<>>
  /\ call.op = "FEVectorGetRHS" =>
       /\ (ret.value.ierr = 0) <=> FEAllPresent
       /\ FEAllPresent => ret.value.object = fe.rhs
       /\ ret.value.ierr # 0 => ret.value.object = "NULL"
  /\ call.op = "FEVectorSetSol" /\ FEAllPresent =>
       /\ ret.value.core = <<"copyInRHSVector">>
       /\ fe.rhs = call.arg.object
       /\ fe.mesh_.feiPtr_ # "NULL" =>
            ret.value.fei = <<"solve">> /\ ret.value.ierr = call.arg.code
       /\ fe.mesh_.feiPtr_ = "NULL" => ret.value.ierr = 0

====
